---- MODULE Spec2Model ----
(***************************************************************************)
(* Mastermind back end: the validate-guess event handler                   *)
(* (amplify/functions/validate-guess/handler.ts) working on the games      *)
(* table, and the scoring it performs.                                     *)
(*                                                                         *)
(* A guess event is processed in two steps separated by awaits: a GetItem  *)
(* of the game record, then (after the local scoring) an unconditional     *)
(* UpdateItem.  Events of one PUBLISH batch run through Promise.all and    *)
(* handler invocations may overlap, so the steps of different events       *)
(* interleave freely.                                                      *)
(***************************************************************************)
EXTENDS Integers, Sequences, FiniteSets, TLC

\* ------------------------------------------------------------------ bounds
MaxEvents == 3      \* guess events in flight / processed in one behaviour
MaxSeqLen == 3      \* longest sequence the scoring specification draws
MaxPairEvents == 2  \* guess events of the specification with two stored games
MaxBatch == 2       \* events of one handler invocation
MaxPlayers == 3     \* items of the leaderboard table

\* --------------------------------------------------------------- constants
MaxAttempts == 10   \* handler.ts:57  guessNumber >= 10

Marker == ""        \* handler.ts:47  secretIds[secretIndex] = ''
Pegs == {"R", "G", "B", "Y"}

Events == 1..MaxEvents
Keys == {"g1", "g2"}            \* (gameId, userId) keys of the games table

Secret1 == <<"R", "G">>
Secret2 == <<"G", "R">>
WrongGuess == <<"G", "R">>

\* payload.guess is an unvalidated string[] sent by the client
GuessInputs ==
  { <<>>, <<"R">>, <<"R", "G">>, <<"G", "R">>, <<"R", "G", "">> }

\* attempts already made on the stored game when the behaviour starts:
\* a new game, and a game one guess away from the cap
PriorGuesses == {0, MaxAttempts - 1}

\* an optional value: <<>> is null / undefined, <<x>> is x
Null == <<>>
Some(x) == <<x>>

VARIABLES
  store,      \* games table: key -> item, for the keys that have an item
  pc,         \* per event: "idle" | "fetched" | "done" | "failed"
  evKey,      \* per event: the key (gameId, userId) of its invocation
  payload,    \* per event: payload.guess
  fetched,    \* per event: secretCode and totalGuesses read by GetCommand
  response,   \* per event: optional value returned by processEvent
  thrown,     \* per event: message of the Error thrown, "" if none
  fn,         \* scoring specification: [secret, guess, result]
  call,       \* handler invocation: [operation, key, events, outcome, returned]
  lb          \* get-leaderboard invocation: [method, difficulty, table, result]

vars == <<store, pc, evKey, payload, fetched, response, thrown, fn, call, lb>>

\* ------------------------------------------------------------------ scoring

\* Array.prototype.indexOf with strict equality: first index, 0 for -1
IndexOf(s, x) ==
  IF \E i \in 1..Len(s) : s[i] = x
  THEN CHOOSE i \in 1..Len(s) : s[i] = x /\ \A j \in 1..(i - 1) : s[j] # x
  ELSE 0

\* for (i < payload.guess.length) if (guess[i] === secretCode[i]) correctPosition++
\* secretCode[i] past the end is undefined and equals no string
RECURSIVE ExactLoop(_, _, _, _)
ExactLoop(secretCode, guess, i, correctPosition) ==
  IF i > Len(guess) THEN correctPosition
  ELSE ExactLoop(secretCode, guess, i + 1,
                 IF i <= Len(secretCode) /\ guess[i] = secretCode[i]
                 THEN correctPosition + 1 ELSE correctPosition)

\* the colour pass without the "mark as used" assignment of line 47
RECURSIVE ColorLoop_NoMark(_, _, _, _)
ColorLoop_NoMark(secretIds, guessIds, k, correctColor) ==
  IF k > Len(guessIds) THEN correctColor
  ELSE ColorLoop_NoMark(secretIds, guessIds, k + 1,
                        IF IndexOf(secretIds, guessIds[k]) # 0
                        THEN correctColor + 1 ELSE correctColor)

\* for (guessId of guessIds) { indexOf; correctColor++; secretIds[idx] = '' }
RECURSIVE ColorLoop(_, _, _, _)
ColorLoop(secretIds, guessIds, k, correctColor) ==
  IF k > Len(guessIds) THEN correctColor
  ELSE LET secretIndex == IndexOf(secretIds, guessIds[k])
       IN IF secretIndex # 0
          THEN ColorLoop([secretIds EXCEPT ![secretIndex] = Marker],
                         guessIds, k + 1, correctColor + 1)
          ELSE ColorLoop(secretIds, guessIds, k + 1, correctColor)

CorrectPosition(secretCode, guess) == ExactLoop(secretCode, guess, 1, 0)

\* secretIds when the loop of lines 43-49 ends
RECURSIVE MarkedIds(_, _, _)
MarkedIds(secretIds, guessIds, k) ==
  IF k > Len(guessIds) THEN secretIds
  ELSE LET secretIndex == IndexOf(secretIds, guessIds[k])
       IN IF secretIndex # 0
          THEN MarkedIds([secretIds EXCEPT ![secretIndex] = Marker], guessIds, k + 1)
          ELSE MarkedIds(secretIds, guessIds, k + 1)

\* line 40 as "const secretIds = secretCode": the marks land in secretCode
SecretCodeAfterScan_Aliased(secretCode, guess) == MarkedIds(secretCode, guess, 1)

\* line 40: secretIds = structuredClone(secretCode), so the array secretCode
\* is the one read from the table when line 79 uses it
SecretCodeAfterScan(secretCode, guess) == secretCode

\* the colour count without the subtraction of line 51
CorrectColor_NoSubtract(secretCode, guess) == ColorLoop(secretCode, guess, 1, 0)

\* correctColor -= correctPosition
CorrectColor(secretCode, guess) ==
  ColorLoop(secretCode, guess, 1, 0) - CorrectPosition(secretCode, guess)

\* the branches of lines 55-61 with the attempt cap tested first
GameStatus_CapFirst(correctPosition, secretLength, guessNumber) ==
  IF guessNumber >= MaxAttempts THEN "lost"
  ELSE IF correctPosition = secretLength THEN "won"
  ELSE "playing"

\* the branches of lines 55-61 with the cap compared by > in place of >=
GameStatus_OffByOne(correctPosition, secretLength, guessNumber) ==
  IF correctPosition = secretLength THEN "won"
  ELSE IF guessNumber > MaxAttempts THEN "lost"
  ELSE "playing"

\* lines 54-61
GameStatus(correctPosition, secretLength, guessNumber) ==
  IF correctPosition = secretLength THEN "won"
  ELSE IF guessNumber >= MaxAttempts THEN "lost"
  ELSE "playing"

\* lines 79-86 with the secret returned on every branch
ReturnSecretCode_Always(gameStatus, secretCode) == Some(secretCode)

\* lines 79-86
ReturnSecretCode(gameStatus, secretCode) ==
  IF gameStatus = "won" THEN Some(secretCode)
  ELSE IF gameStatus = "lost" THEN Some(secretCode)
  ELSE Null

\* the value bound to :guess
GuessRecord(secretCode, guess) ==
  [guess |-> guess,
   blackPegs |-> CorrectPosition(secretCode, guess),
   whitePegs |-> CorrectColor(secretCode, guess)]

\* ------------------------------------------------------------------- store

\* the update of lines 64-77 without totalGuesses = :total
UpdateItem_NoTotal(item, guessNumber, record, gameStatus) ==
  [item EXCEPT !.guesses = (guessNumber :> record) @@ @,
               !.gameStatus = gameStatus]

\* SET guess<N> = :guess, totalGuesses = :total, gameStatus = :gameStatus
\* on the item of key k; no ConditionExpression
UpdateItem(item, guessNumber, record, gameStatus) ==
  [item EXCEPT !.guesses = (guessNumber :> record) @@ @,
               !.totalGuesses = guessNumber,
               !.gameStatus = gameStatus]

\* a game as stored after n sequential non-winning guesses
RECURSIVE PlayedGame(_, _)
PlayedGame(secretCode, n) ==
  IF n = 0
  THEN [secretCode |-> secretCode, totalGuesses |-> 0,
        gameStatus |-> "playing", guesses |-> <<>>]
  ELSE UpdateItem(PlayedGame(secretCode, n - 1), n,
                  GuessRecord(secretCode, WrongGuess),
                  GameStatus(CorrectPosition(secretCode, WrongGuess),
                             Len(secretCode), n))

NoFetch == [secretCode |-> <<>>, totalGuesses |-> 0]
NoFn == [secret |-> <<>>, guess |-> <<>>, result |-> Null]
NoCall == [operation |-> "", key |-> "g1", events |-> <<>>,
           outcome |-> "none", returned |-> Null]
NoLb == [method |-> "", difficulty |-> Null, table |-> <<>>, result |-> Null]

\* the table holds the game g1; no item has the key g2
Init ==
  /\ \E n \in PriorGuesses : store = ("g1" :> PlayedGame(Secret1, n))
  /\ pc = [e \in Events |-> "idle"]
  /\ evKey = [e \in Events |-> "g1"]
  /\ payload = [e \in Events |-> <<>>]
  /\ fetched = [e \in Events |-> NoFetch]
  /\ response = [e \in Events |-> Null]
  /\ thrown = [e \in Events |-> ""]
  /\ fn = NoFn
  /\ call = NoCall
  /\ lb = NoLb

\* --------------------------------------------------------------- processEvent

\* lines 12-26 for the key k and the guess of the payload; the item exists
GetItemOf(e, k, guess) ==
  /\ pc[e] = "idle"
  /\ k \in DOMAIN store
  /\ evKey' = [evKey EXCEPT ![e] = k]
  /\ payload' = [payload EXCEPT ![e] = guess]
  /\ fetched' = [fetched EXCEPT ![e] =
         [secretCode |-> store[k].secretCode,
          totalGuesses |-> store[k].totalGuesses]]
  /\ pc' = [pc EXCEPT ![e] = "fetched"]
  /\ UNCHANGED <<store, response, thrown, fn, call, lb>>

\* lines 12-26: GetCommand for the key; the item exists
GetItem(e) == \E k \in Keys, guess \in GuessInputs : GetItemOf(e, k, guess)

\* lines 19-23 for the key k: no item, throw 'Game not found'
\* (the payload is not read on this path)
GameNotFoundOf(e, k) ==
  /\ pc[e] = "idle"
  /\ k \notin DOMAIN store
  /\ evKey' = [evKey EXCEPT ![e] = k]
  /\ UNCHANGED payload
  /\ pc' = [pc EXCEPT ![e] = "failed"]
  /\ thrown' = [thrown EXCEPT ![e] = "Game not found"]
  /\ UNCHANGED <<store, fetched, response, fn, call, lb>>

\* lines 19-23: GetCommand for the key; no item: throw 'Game not found'
GameNotFound(e) == \E k \in Keys : GameNotFoundOf(e, k)

\* lines 25-95: score, UpdateCommand, build the response
Respond(e) ==
  LET secretCode == fetched[e].secretCode
      guessNumber == fetched[e].totalGuesses + 1
      record == GuessRecord(secretCode, payload[e])
      gameStatus == GameStatus(record.blackPegs, Len(secretCode), guessNumber)
  IN [guess |-> payload[e],
      blackPegs |-> record.blackPegs,
      whitePegs |-> record.whitePegs,
      guessNumber |-> guessNumber,
      gameStatus |-> gameStatus,
      secretCode |-> ReturnSecretCode(gameStatus,
                                      SecretCodeAfterScan(secretCode, payload[e]))]

\* the update of lines 64-77 applied to every item instead of the item of Key
UpdateGame_AllKeys(e) ==
  /\ pc[e] = "fetched"
  /\ LET r == Respond(e)
     IN /\ store' = [k \in DOMAIN store |->
               UpdateItem(store[k], r.guessNumber,
                          [guess |-> r.guess, blackPegs |-> r.blackPegs,
                           whitePegs |-> r.whitePegs],
                          r.gameStatus)]
        /\ response' = [response EXCEPT ![e] = Some(r)]
  /\ pc' = [pc EXCEPT ![e] = "done"]
  /\ UNCHANGED <<evKey, payload, fetched, thrown, fn, call, lb>>

\* lines 25-96: UpdateCommand on the item of Key { gameId, userId }, return
UpdateGame(e) ==
  /\ pc[e] = "fetched"
  /\ LET r == Respond(e)
         k == evKey[e]
     IN /\ store' = [store EXCEPT ![k] =
               UpdateItem(@, r.guessNumber,
                          [guess |-> r.guess, blackPegs |-> r.blackPegs,
                           whitePegs |-> r.whitePegs],
                          r.gameStatus)]
        /\ response' = [response EXCEPT ![e] = Some(r)]
  /\ pc' = [pc EXCEPT ![e] = "done"]
  /\ UNCHANGED <<evKey, payload, fetched, thrown, fn, call, lb>>

Next ==
  \E e \in Events :
    \/ GetItem(e)
    \/ GameNotFound(e)
    \/ UpdateGame(e)

Spec == Init /\ [][Next]_vars

\* ------------------------------------------------------ two stored games
\* the table holds the games g1 and g2; the events address either

InitialItem(k, n) ==
  IF k = "g1" THEN PlayedGame(Secret1, n) ELSE PlayedGame(Secret2, 0)

TwoGamesStores == {[k \in Keys |-> InitialItem(k, n)] : n \in PriorGuesses}

TwoGamesInit ==
  /\ store \in TwoGamesStores
  /\ pc = [e \in Events |-> "idle"]
  /\ evKey = [e \in Events |-> "g1"]
  /\ payload = [e \in Events |-> <<>>]
  /\ fetched = [e \in Events |-> NoFetch]
  /\ response = [e \in Events |-> Null]
  /\ thrown = [e \in Events |-> ""]
  /\ fn = NoFn
  /\ call = NoCall
  /\ lb = NoLb

TwoGamesNext ==
  \E e \in 1..MaxPairEvents :
    \/ GetItem(e)
    \/ UpdateGame(e)

TwoGamesSpec == TwoGamesInit /\ [][TwoGamesNext]_vars

\* ---------------------------------------------------- one handler invocation
\* lines 98-123: event.info.operation, the key of the invocation and
\* event.events; the i-th event of the batch is processed as event i

Operations == {"PUBLISH", "SUBSCRIBE"}
EventIds == {"a", "b"}

InputEvent(id, guess) == [id |-> id, payload |-> [guess |-> guess]]

Batches ==
  UNION {[1..n -> {InputEvent(id, g) : id \in EventIds, g \in GuessInputs}] :
           n \in 0..MaxBatch}

HandlerStores == {("g1" :> PlayedGame(Secret1, n)) : n \in PriorGuesses}

HandlerInit ==
  /\ store \in HandlerStores
  /\ \E op \in Operations, k \in Keys, b \in Batches :
       call = [operation |-> op, key |-> k, events |-> b,
               outcome |-> "running", returned |-> Null]
  /\ pc = [e \in Events |-> "idle"]
  /\ evKey = [e \in Events |-> "g1"]
  /\ payload = [e \in Events |-> <<>>]
  /\ fetched = [e \in Events |-> NoFetch]
  /\ response = [e \in Events |-> Null]
  /\ thrown = [e \in Events |-> ""]
  /\ fn = NoFn
  /\ lb = NoLb

InBatch(i) == call.operation = "PUBLISH" /\ i \in 1..Len(call.events)

\* line 108: processEvent(_event.payload, gameId, userId), up to its first await
PublishGet(i) ==
  InBatch(i) /\ GetItemOf(i, call.key, call.events[i].payload.guess)

PublishNotFound(i) == InBatch(i) /\ GameNotFoundOf(i, call.key)

PublishUpdate(i) == InBatch(i) /\ UpdateGame(i)

\* lines 107-115 with the promises resolved in reverse order of the events
ResolvedEvents_Reversed(events, responses) ==
  [i \in 1..Len(events) |->
     [id |-> events[i].id, payload |-> responses[Len(events) + 1 - i][1]]]

\* lines 107-117: { id: _event.id, payload: { ...responsePayload } } per event
ResolvedEvents(events, responses) ==
  [i \in 1..Len(events) |-> [id |-> events[i].id, payload |-> responses[i][1]]]

\* lines 117-119: every promise fulfilled, return { events: resolvedEvents }
Return ==
  /\ call.operation = "PUBLISH" /\ call.outcome = "running"
  /\ \A i \in 1..Len(call.events) : pc[i] = "done"
  /\ call' = [call EXCEPT !.outcome = "returned",
                          !.returned = Some(ResolvedEvents(call.events, response))]
  /\ UNCHANGED <<store, pc, evKey, payload, fetched, response, thrown, fn, lb>>

\* line 117: a promise rejected, Promise.all rejects and the handler throws
Reject ==
  /\ call.operation = "PUBLISH" /\ call.outcome = "running"
  /\ \E i \in 1..Len(call.events) : pc[i] = "failed"
  /\ call' = [call EXCEPT !.outcome = "rejected"]
  /\ UNCHANGED <<store, pc, evKey, payload, fetched, response, thrown, fn, lb>>

\* line 122: any other operation, return { events: event.events }
PassThrough ==
  /\ call.operation # "PUBLISH" /\ call.outcome = "running"
  /\ call' = [call EXCEPT !.outcome = "returned", !.returned = Some(call.events)]
  /\ UNCHANGED <<store, pc, evKey, payload, fetched, response, thrown, fn, lb>>

HandlerNext ==
  \/ \E i \in Events : PublishGet(i) \/ PublishNotFound(i) \/ PublishUpdate(i)
  \/ Return
  \/ Reject
  \/ PassThrough

HandlerSpec == HandlerInit /\ [][HandlerNext]_vars

\* ------------------------------------------------- the scoring on its own
\* lines 28-51 applied to one secret and one guess: the secret is a non-empty
\* sequence of pegs, the guess any sequence of strings up to the same bound

SeqsUpTo(S, lo, hi) == UNION {[1..n -> S] : n \in lo..hi}

ScoreInit ==
  /\ \E s \in SeqsUpTo(Pegs, 1, MaxSeqLen),
        g \in SeqsUpTo(Pegs \cup {Marker}, 0, MaxSeqLen) :
       fn = [secret |-> s, guess |-> g, result |-> Null]
  /\ store = <<>>
  /\ pc = [e \in Events |-> "idle"]
  /\ evKey = [e \in Events |-> "g1"]
  /\ payload = [e \in Events |-> <<>>]
  /\ fetched = [e \in Events |-> NoFetch]
  /\ response = [e \in Events |-> Null]
  /\ thrown = [e \in Events |-> ""]
  /\ call = NoCall
  /\ lb = NoLb

Score ==
  /\ fn.result = Null
  /\ fn' = [fn EXCEPT !.result =
              Some([blackPegs |-> CorrectPosition(fn.secret, fn.guess),
                    whitePegs |-> CorrectColor(fn.secret, fn.guess)])]
  /\ UNCHANGED <<store, pc, evKey, payload, fetched, response, thrown, call, lb>>

ScoreNext == Score

ScoreSpec == ScoreInit /\ [][ScoreNext]_vars

\* ------------------------------------------------------------ get-leaderboard
\* amplify/functions/get-leaderboard/handler.ts: one request against a table
\* whose items have the key (userId, difficulty); lb.table is the order in
\* which a Scan yields them

Users == {"u1", "u2"}
Difficulties == {"easy", "hard"}
WonValues == {2, 3}
ScoreValues == {3, 5, 9}

PlayerRecords ==
  [userId : Users, difficulty : Difficulties,
   gamesWon : WonValues, bestScore : ScoreValues]

DistinctKeys(t) ==
  \A i, j \in 1..Len(t) :
    (t[i].userId = t[j].userId /\ t[i].difficulty = t[j].difficulty) => i = j

Tables == {t \in SeqsUpTo(PlayerRecords, 0, MaxPlayers) : DistinctKeys(t)}

\* event.queryStringParameters?.difficulty: undefined, '' or a value
DifficultyParams == {Null, Some("")} \cup {Some(d) : d \in Difficulties}

LeaderInit ==
  /\ \E m \in {"GET", "OPTIONS"}, d \in DifficultyParams, t \in Tables :
       lb = [method |-> m, difficulty |-> d, table |-> t, result |-> Null]
  /\ store = <<>>
  /\ pc = [e \in Events |-> "idle"]
  /\ evKey = [e \in Events |-> "g1"]
  /\ payload = [e \in Events |-> <<>>]
  /\ fetched = [e \in Events |-> NoFetch]
  /\ response = [e \in Events |-> Null]
  /\ thrown = [e \in Events |-> ""]
  /\ fn = NoFn
  /\ call = NoCall

\* the scan with the filter added for every difficulty that is not undefined
ScanItems_FilterEmpty(table, difficulty) ==
  IF difficulty # Null
  THEN SelectSeq(table, LAMBDA item : item.difficulty = difficulty[1])
  ELSE table

\* lines 31-45: if (difficulty) FilterExpression 'difficulty = :difficulty'
ScanItems(table, difficulty) ==
  IF difficulty # Null /\ difficulty[1] # ""
  THEN SelectSeq(table, LAMBDA item : item.difficulty = difficulty[1])
  ELSE table

\* the comparator with bestScore descending
Compare_ScoreDescending(a, b) ==
  IF a.gamesWon # b.gamesWon
  THEN b.gamesWon - a.gamesWon
  ELSE b.bestScore - a.bestScore

\* lines 49-54: the comparator of the sort
Compare(a, b) ==
  IF a.gamesWon # b.gamesWon
  THEN b.gamesWon - a.gamesWon
  ELSE a.bestScore - b.bestScore

\* Array.prototype.sort is stable: an item goes behind every item already
\* placed that the comparator does not put after it
InsertItem(sorted, x) ==
  LET after == {i \in 1..Len(sorted) : Compare(sorted[i], x) > 0}
      at == IF after = {} THEN Len(sorted) + 1
            ELSE CHOOSE i \in after : \A j \in after : i <= j
  IN SubSeq(sorted, 1, at - 1) \o <<x>> \o SubSeq(sorted, at, Len(sorted))

RECURSIVE SortItems(_)
SortItems(items) ==
  IF items = <<>> THEN <<>>
  ELSE InsertItem(SortItems(SubSeq(items, 1, Len(items) - 1)), items[Len(items)])

LbResponse(statusCode, body) == [statusCode |-> statusCode, body |-> body]

\* lines 22-28: OPTIONS, 200 with an empty body
Options ==
  /\ lb.method = "OPTIONS" /\ lb.result = Null
  /\ lb' = [lb EXCEPT !.result = Some(LbResponse(200, Null))]
  /\ UNCHANGED <<store, pc, evKey, payload, fetched, response, thrown, fn, call>>

\* lines 30-60: scan, sort, 200 with { leaderboard }
Leaderboard ==
  /\ lb.method # "OPTIONS" /\ lb.result = Null
  /\ lb' = [lb EXCEPT !.result =
              Some(LbResponse(200, Some(SortItems(ScanItems(lb.table, lb.difficulty)))))]
  /\ UNCHANGED <<store, pc, evKey, payload, fetched, response, thrown, fn, call>>

\* lines 62-69: the scan throws, 500
ScanFails ==
  /\ lb.method # "OPTIONS" /\ lb.result = Null
  /\ lb' = [lb EXCEPT !.result = Some(LbResponse(500, Null))]
  /\ UNCHANGED <<store, pc, evKey, payload, fetched, response, thrown, fn, call>>

LeaderNext == Options \/ Leaderboard \/ ScanFails

LeaderSpec == LeaderInit /\ [][LeaderNext]_vars

\* ==================================================================== claims

Terminal == {"won", "lost"}
Range(s) == {s[i] : i \in 1..Len(s)}
Min(a, b) == IF a <= b THEN a ELSE b
Occurrences(s, x) == Cardinality({i \in 1..Len(s) : s[i] = x})

\* positions at which the guess carries the peg of the secret
ExactCount(s, g) ==
  Cardinality({i \in 1..Len(g) : i <= Len(s) /\ g[i] = s[i]})

\* sum over the values of S of the smaller occurrence count
RECURSIVE SharedCount(_, _, _)
SharedCount(s, g, S) ==
  IF S = {} THEN 0
  ELSE LET x == CHOOSE y \in S : TRUE
       IN Min(Occurrences(s, x), Occurrences(g, x)) + SharedCount(s, g, S \ {x})

Feedback(s, g) == <<CorrectPosition(s, g), CorrectColor(s, g)>>

\* the step in which event e leaves processEvent after its GetCommand
Completes(e) == pc[e] = "fetched" /\ pc'[e] # "fetched"

\* C1: a guess processed against a game whose stored status is already won or
\* lost fails, and the game's record (totalGuesses, guessN, gameStatus) is
\* left as it was.
C1_TerminalGameRejected ==
  [][\A e \in Events :
       (Completes(e) /\ store[evKey[e]].gameStatus \in Terminal)
         => (pc'[e] = "failed" /\ store' = store)]_vars

\* C2: the stored gameStatus never leaves won or lost: a terminal status is
\* the same after every step.
C2_StatusOneWay ==
  [][\A k \in DOMAIN store :
       store[k].gameStatus \in Terminal
         => (k \in DOMAIN store' /\ store'[k].gameStatus = store[k].gameStatus)]_vars

\* C3: no two processed guesses of one game are assigned the same guessNumber
\* (at most one commit per ordinal, so no committed record is overwritten).
C3_OneCommitPerOrdinal ==
  \A e1, e2 \in Events :
    (e1 # e2 /\ pc[e1] = "done" /\ pc[e2] = "done" /\ evKey[e1] = evKey[e2])
      => response[e1][1].guessNumber # response[e2][1].guessNumber

\* C4: the response's secretCode is null when its gameStatus is playing and is
\* the stored secret of the game when its gameStatus is won or lost.
C4_SecretRedaction ==
  \A e \in Events :
    pc[e] = "done" =>
      LET r == response[e][1]
      IN /\ r.gameStatus \in {"playing", "won", "lost"}
         /\ r.gameStatus = "playing" => r.secretCode = Null
         /\ r.gameStatus \in Terminal
              => r.secretCode = Some(store[evKey[e]].secretCode)

C4_Witness ==
  \E e1, e2 \in Events :
    /\ pc[e1] = "done" /\ response[e1][1].gameStatus = "playing"
    /\ response[e1][1].secretCode = Null
    /\ pc[e2] = "done" /\ response[e2][1].gameStatus = "won"
    /\ response[e2][1].secretCode = Some(Secret1)

\* the status the transition rule asks for
RuleStatus(exact, secretLength, ordinal) ==
  CASE exact = secretLength -> "won"
    [] exact # secretLength /\ ordinal >= 10 -> "lost"
    [] OTHER -> "playing"

\* C5: a processed guess has ordinal totalGuesses + 1 and its resulting status,
\* in the response and in the record written, is won on a full exact match
\* whatever the ordinal, else lost from ordinal 10 on, else playing.
C5_StatusRule ==
  [][\A e \in Events :
       (pc[e] = "fetched" /\ pc'[e] = "done") =>
         LET ordinal == fetched[e].totalGuesses + 1
             secret == store[evKey[e]].secretCode
             status == RuleStatus(ExactCount(secret, payload[e]), Len(secret), ordinal)
         IN /\ response'[e][1].guessNumber = ordinal
            /\ response'[e][1].gameStatus = status
            /\ store'[evKey[e]].gameStatus = status
            /\ store'[evKey[e]].totalGuesses = ordinal]_vars

\* from ordinal 9 a guess that is no full match gave lost at ordinal 10, and
\* another full match at ordinal 10 gave won
C5_Witness ==
  \E e1, e2 \in Events :
    /\ pc[e1] = "done" /\ response[e1][1].guessNumber = 10
    /\ response[e1][1].blackPegs < Len(Secret1)
    /\ response[e1][1].gameStatus = "lost"
    /\ pc[e2] = "done" /\ response[e2][1].guessNumber = 10
    /\ response[e2][1].gameStatus = "won"

\* the general statement of C6: on equal lengths over the pegs, blackPegs is
\* the number of positions that agree and whitePegs is the sum over the peg
\* values of the smaller occurrence count, minus blackPegs
CountersAgree ==
  (fn.result # Null /\ Len(fn.guess) = Len(fn.secret) /\ Range(fn.guess) \subseteq Pegs)
    => /\ fn.result[1].blackPegs = ExactCount(fn.secret, fn.guess)
       /\ fn.result[1].whitePegs =
            SharedCount(fn.secret, fn.guess, Pegs) - ExactCount(fn.secret, fn.guess)

\* a worked example with two distinct pegs a, b standing for A, B
Example(s, g, black, white) ==
  (fn.result # Null /\ fn.secret = s /\ fn.guess = g)
    => fn.result = Some([blackPegs |-> black, whitePegs |-> white])

\* C6 (as amended): the greedy mark-as-consumed scan agrees with the
\* per-value occurrence counters on equal lengths over the pegs; ([A,A,B],
\* [A,A,A]) gives (2,0), ([A,B,B],[B,B,A]) gives (1,2) and ([R,G,B,Y],
\* [R,Y,G,B]) gives (1,3).
C6_GreedyEqualsCounters ==
  /\ CountersAgree
  /\ \A a, b \in Pegs :
       a # b => /\ Example(<<a, a, b>>, <<a, a, a>>, 2, 0)
                /\ Example(<<a, b, b>>, <<b, b, a>>, 1, 2)
  /\ Feedback(<<"R", "G", "B", "Y">>, <<"R", "Y", "G", "B">>) = <<1, 3>>

C6_Witness ==
  /\ fn.secret = <<"R", "G", "G">> /\ fn.guess = <<"G", "G", "R">>
  /\ fn.result = Some([blackPegs |-> 1, whitePegs |-> 2])

\* C6 (as claimed): the same, with ([A,B,B],[B,B,A]) giving (0,3).
C6_AsClaimed ==
  /\ CountersAgree
  /\ \A a, b \in Pegs :
       a # b => /\ Example(<<a, a, b>>, <<a, a, a>>, 2, 0)
                /\ Example(<<a, b, b>>, <<b, b, a>>, 0, 3)
  /\ Feedback(<<"R", "G", "B", "Y">>, <<"R", "Y", "G", "B">>) = <<1, 3>>

\* C7: every stored guess record has blackPegs >= 0, whitePegs >= 0 and
\* blackPegs + whitePegs at most the length of the game's secret.
C7_PegsBounded ==
  \A k \in DOMAIN store :
    \A n \in DOMAIN store[k].guesses :
      LET rec == store[k].guesses[n]
      IN /\ rec.blackPegs >= 0
         /\ rec.whitePegs >= 0
         /\ rec.blackPegs + rec.whitePegs <= Len(store[k].secretCode)

\* C8: a non-empty sequence scored against itself gives blackPegs = its length
\* and whitePegs = 0.
C8_PerfectGuess ==
  (fn.result # Null /\ fn.guess = fn.secret)
    => fn.result = Some([blackPegs |-> Len(fn.secret), whitePegs |-> 0])

C8_Witness ==
  /\ fn.secret = <<"R", "G", "R">> /\ fn.guess = fn.secret
  /\ fn.result # Null

\* C9: a guess whose length differs from the secret's is rejected: its event
\* fails without a response and no record of such a guess is stored.
C9_LengthMismatchRejected ==
  /\ \A e \in Events :
       (pc[e] \in {"done", "failed"} /\ evKey[e] \in DOMAIN store
          /\ Len(payload[e]) # Len(store[evKey[e]].secretCode))
         => (pc[e] = "failed" /\ response[e] = Null)
  /\ \A k \in DOMAIN store :
       \A n \in DOMAIN store[k].guesses :
         Len(store[k].guesses[n].guess) = Len(store[k].secretCode)

\* C10: the stored guess records of a game are exactly those of the ordinals
\* 1..totalGuesses.
C10_RecordsMatchTotal ==
  \A k \in DOMAIN store :
    DOMAIN store[k].guesses = 1..store[k].totalGuesses

\* C11: totalGuesses of a game never exceeds 10 and no guess record with an
\* ordinal above 10 is stored.
C11_AttemptCap ==
  \A k \in DOMAIN store :
    /\ store[k].totalGuesses <= 10
    /\ \A n \in DOMAIN store[k].guesses : n <= 10

\* the record processEvent writes for a response
RecordOf(r) == [guess |-> r.guess, blackPegs |-> r.blackPegs, whitePegs |-> r.whitePegs]

CompleteResponse(r) ==
  /\ DOMAIN r = {"guess", "blackPegs", "whitePegs", "guessNumber", "gameStatus", "secretCode"}
  /\ r.gameStatus \in {"playing", "won", "lost"}
  /\ r.guessNumber >= 1

\* C13: a step of an event either reads only, or returns a complete response
\* with exactly one update applied (the guess record of its ordinal,
\* totalGuesses and gameStatus written together, nothing else touched), or
\* raises an error with the store unchanged; a guess for a key without a
\* record fails with 'Game not found' and no record is created.
C13_NoPartialResult ==
  [][\A e \in Events :
       pc'[e] # pc[e] =>
         /\ DOMAIN store' = DOMAIN store
         /\ evKey'[e] \notin DOMAIN store => pc'[e] = "failed"
         /\ \/ /\ pc'[e] = "fetched"
               /\ store' = store /\ response'[e] = Null /\ thrown'[e] = ""
            \/ /\ pc'[e] = "done"
               /\ thrown'[e] = ""
               /\ response'[e] # Null
               /\ CompleteResponse(response'[e][1])
               /\ LET r == response'[e][1]
                      k == evKey[e]
                  IN /\ \A j \in DOMAIN store : j # k => store'[j] = store[j]
                     /\ store'[k].secretCode = store[k].secretCode
                     /\ store'[k].totalGuesses = r.guessNumber
                     /\ store'[k].gameStatus = r.gameStatus
                     /\ DOMAIN store'[k].guesses =
                          DOMAIN store[k].guesses \cup {r.guessNumber}
                     /\ store'[k].guesses[r.guessNumber] = RecordOf(r)
                     /\ \A n \in DOMAIN store[k].guesses :
                          n # r.guessNumber
                            => store'[k].guesses[n] = store[k].guesses[n]
            \/ /\ pc'[e] = "failed"
               /\ thrown'[e] = "Game not found"
               /\ response'[e] = Null
               /\ store' = store]_vars

C13_Witness ==
  \E e1, e2 \in Events :
    /\ pc[e1] = "failed" /\ evKey[e1] = "g2" /\ thrown[e1] = "Game not found"
    /\ "g2" \notin DOMAIN store
    /\ pc[e2] = "done" /\ response[e2] # Null
    /\ store[evKey[e2]].guesses[response[e2][1].guessNumber] = RecordOf(response[e2][1])

\* C14: once a response has disclosed the secret of a game, the stored status
\* of that game is not 'playing'.
C14_NoPlayAfterDisclosure ==
  \A e \in Events :
    (pc[e] = "done" /\ response[e][1].secretCode # Null)
      => store[evKey[e]].gameStatus # "playing"

\* C18: a stored game whose totalGuesses has reached 10 is won or lost.
C18_CapImpliesTerminal ==
  \A k \in DOMAIN store :
    store[k].totalGuesses >= 10 => store[k].gameStatus \in Terminal

\* the cap was reached, and passed by a later guess
C18_Witness ==
  \E k \in DOMAIN store :
    /\ store[k].totalGuesses > 10
    /\ store[k].gameStatus = "lost"
    /\ \E e \in Events : pc[e] = "done" /\ response[e][1].guessNumber = 10

\* C16: no step changes the stored secretCode of a game, and a secret
\* returned in a response is the stored sequence, with no entry blanked by
\* the scoring.
C16_SecretNeverMutated ==
  [][/\ \A k \in DOMAIN store :
          k \in DOMAIN store' /\ store'[k].secretCode = store[k].secretCode
     /\ \A e \in Events :
          (pc'[e] = "done" /\ response'[e][1].secretCode # Null)
            => /\ response'[e][1].secretCode = Some(store[evKey'[e]].secretCode)
               /\ Marker \notin Range(response'[e][1].secretCode[1])]_vars

\* a disclosed secret after a scoring that marked entries of the copy
C16_Witness ==
  \E e \in Events :
    /\ pc[e] = "done"
    /\ response[e][1].blackPegs + response[e][1].whitePegs > 0
    /\ response[e][1].secretCode = Some(Secret1)
    /\ store[evKey[e]].secretCode = Secret1
    /\ MarkedIds(Secret1, payload[e], 1) # Secret1

\* what processEvent on its own makes of an item and a guess
AloneResponse(item, guess) ==
  LET rec == GuessRecord(item.secretCode, guess)
      status == GameStatus(rec.blackPegs, Len(item.secretCode), item.totalGuesses + 1)
  IN [guess |-> guess, blackPegs |-> rec.blackPegs, whitePegs |-> rec.whitePegs,
      guessNumber |-> item.totalGuesses + 1, gameStatus |-> status,
      secretCode |-> ReturnSecretCode(status, item.secretCode)]

AloneItem(item, guess) ==
  LET r == AloneResponse(item, guess)
  IN UpdateItem(item, r.guessNumber, RecordOf(r), r.gameStatus)

\* no other event has touched the game of event e
OnlyEventOnGame(e) ==
  \A o \in Events : (o # e /\ pc[o] # "idle") => evKey[o] # evKey[e]

\* a finished guess that was the only one on its game left the game and the
\* response as a lone run from the initial record does
AsIfAlone ==
  \A e \in Events :
    (pc[e] = "done" /\ OnlyEventOnGame(e)) =>
      \E initial \in TwoGamesStores :
        /\ store[evKey[e]] = AloneItem(initial[evKey[e]], payload[e])
        /\ response[e] = Some(AloneResponse(initial[evKey[e]], payload[e]))

\* C15: the update of a guess changes the record of its own game only, and
\* guesses on distinct games, however interleaved, give each game the state
\* and the response of a run on its own.
C15_GamesIndependent ==
  [][/\ \A e \in Events :
          (pc[e] = "fetched" /\ pc'[e] = "done")
            => \A k \in DOMAIN store : k # evKey[e] => store'[k] = store[k]
     /\ AsIfAlone']_vars

\* two guesses on distinct games, both finished
C15_Witness ==
  /\ pc[1] = "done" /\ pc[2] = "done"
  /\ evKey[1] = "g1" /\ evKey[2] = "g2"
  /\ store["g1"].totalGuesses = 1 /\ store["g2"].totalGuesses = 1

\* C19: a PUBLISH invocation that returns gives one output event per input
\* event, in input order, each with the id of its input event and the scored
\* response of that event's payload; any other operation returns the input
\* events unchanged and neither reads nor writes the games table.
C19_HandlerOutput ==
  /\ (call.operation = "PUBLISH" /\ call.outcome = "returned") =>
       LET out == call.returned[1]
       IN /\ Len(out) = Len(call.events)
          /\ \A i \in 1..Len(out) :
               /\ DOMAIN out[i] = {"id", "payload"}
               /\ out[i].id = call.events[i].id
               /\ pc[i] = "done"
               /\ out[i].payload = response[i][1]
               /\ out[i].payload.guess = call.events[i].payload.guess
               /\ out[i].payload.blackPegs =
                    ExactCount(store[call.key].secretCode, call.events[i].payload.guess)
  /\ call.operation \in Operations \ {"PUBLISH"} =>
       /\ \A e \in Events : pc[e] = "idle"
       /\ store \in HandlerStores
       /\ call.outcome = "returned" => call.returned = Some(call.events)

\* a returned batch of two events with distinct ids and distinct guesses
C19_Witness ==
  /\ call.operation = "PUBLISH" /\ call.outcome = "returned"
  /\ Len(call.events) = 2
  /\ call.events[1].id = "b" /\ call.events[2].id = "a"
  /\ call.returned[1][1].payload # call.returned[1][2].payload
  /\ call.returned[1][1].payload.guess = <<"R", "G">>

\* a leaderboard was returned
Ranked == lb.result # Null /\ lb.result[1].body # Null
Board == lb.result[1].body[1]

Filtering == lb.difficulty # Null /\ lb.difficulty # Some("")
Matches(item) == item.difficulty = lb.difficulty[1]

\* the records the scan yields, in table order
Scanned == IF Filtering THEN SelectSeq(lb.table, Matches) ELSE lb.table

Position(t, x) == CHOOSE i \in 1..Len(t) : t[i] = x
SortKeys(t) == [i \in 1..Len(t) |-> <<t[i].gamesWon, t[i].bestScore>>]

\* C12: the leaderboard is a permutation of the scanned records; of two
\* adjacent records the first has more gamesWon, or the same gamesWon and a
\* bestScore not larger; records equal on both keys keep their input order;
\* [(2,5),(3,9),(2,3)] is ordered [(3,9),(2,3),(2,5)].
C12_LeaderboardOrder ==
  Ranked =>
    /\ Len(Board) = Len(Scanned)
    /\ Range(Board) = Range(Scanned)
    /\ \A i \in 1..(Len(Board) - 1) :
         \/ Board[i].gamesWon > Board[i + 1].gamesWon
         \/ /\ Board[i].gamesWon = Board[i + 1].gamesWon
            /\ Board[i].bestScore <= Board[i + 1].bestScore
    /\ \A i, j \in 1..Len(Board) :
         (i < j /\ Board[i].gamesWon = Board[j].gamesWon
                /\ Board[i].bestScore = Board[j].bestScore)
           => Position(Scanned, Board[i]) < Position(Scanned, Board[j])
    /\ SortKeys(Scanned) = <<<<2, 5>>, <<3, 9>>, <<2, 3>>>>
         => SortKeys(Board) = <<<<3, 9>>, <<2, 3>>, <<2, 5>>>>

\* the example of the claim, ranked without a filter
C12_Witness ==
  /\ Ranked /\ ~Filtering
  /\ SortKeys(lb.table) = <<<<2, 5>>, <<3, 9>>, <<2, 3>>>>
  /\ Board = <<lb.table[2], lb.table[3], lb.table[1]>>

====
